---------------------------- MODULE Spec2Model ----------------------------
(***************************************************************************)
(* Model of donkeypart_bluetooth_game_controller/part.py:                  *)
(* BluetoothDevice (find_input_device, load_device) and                    *)
(* BluetoothGameController (read_loop, update_state_from_loop, the six     *)
(* button handlers, run, update, shutdown).                                *)
(*                                                                         *)
(* Python numbers are modelled as exact rationals [n |-> num, d |-> den]   *)
(* in lowest terms (d > 0); Python's None is the value with d = 0.         *)
(***************************************************************************)
EXTENDS Integers, Sequences, FiniteSets, TLC

(***************************************************************************)
(* Bounds of the model.                                                    *)
(***************************************************************************)
\* number of raw events the device delivers in one behaviour
MaxEvents == 4
\* number of times a device is plugged in again after having been removed
MaxReplugs == 2
\* polls whose read returns an event, where the device delivers events of
\* every type
MaxWideEvents == 3
\* polls of a device that delivers only PAD_UP and PAD_DOWN events
MaxPresses == 22
\* events read by update() in its thread while the consumer calls
\* run_threaded()
MaxConcEvents == 3
\* events the device produces where the events wait in its queue
MaxProduced == 3

(***************************************************************************)
(* Numbers.                                                                *)
(***************************************************************************)
Abs(x) == IF x < 0 THEN -x ELSE x

RECURSIVE GCD(_, _)
GCD(a, b) == IF b = 0 THEN a ELSE GCD(b, a % b)

\* the rational n/d (d # 0) in lowest terms with a positive denominator
Rat(n, d) ==
    LET s == IF d < 0 THEN -1 ELSE 1
        g == GCD(Abs(n), Abs(d))
    IN  [n |-> (s * n) \div g, d |-> (s * d) \div g]

Num(i) == [n |-> i, d |-> 1]

None == [n |-> 0, d |-> 0]

RatMul(x, y) == Rat(x.n * y.n, x.d * y.d)

RatAdd(x, y) == Rat(x.n * y.d + y.n * x.d, x.d * y.d)

RatSub(x, y) == Rat(x.n * y.d - y.n * x.d, x.d * y.d)

RatDiv(x, y) == Rat(x.n * y.d, x.d * y.n)

\* x < y, for denominators > 0
RatLess(x, y) == x.n * y.d < y.n * x.d

\* sorted(seq): ascending, by insertion
RECURSIVE Insert(_, _)
Insert(x, seq) ==
    IF seq = << >> THEN <<x>>
    ELSE IF RatLess(Head(seq), x)
         THEN <<Head(seq)>> \o Insert(x, Tail(seq))
         ELSE <<x>> \o seq

RECURSIVE Sorted(_)
Sorted(seq) == IF seq = << >> THEN << >> ELSE Insert(Head(seq), Sorted(Tail(seq)))

\* sum(seq)
RECURSIVE Sum(_)
Sum(seq) == IF seq = << >> THEN Num(0) ELSE RatAdd(Head(seq), Sum(Tail(seq)))

(***************************************************************************)
(* Configuration and constants of the controller.                          *)
(***************************************************************************)
\* evdev.ecodes event types
EV_KEY == 1
EV_ABS == 3

\* self.joystick_max_value = self.config.get('joystick_max_value', 1280)
joystick_max_value == 1280

\* self.throttle_scale_increment = .05
throttle_scale_increment == Rat(5, 100)

\* self.y_axis_direction = -1
y_axis_direction == Num(-1)

\* cycle(['user', 'local_angle', 'local']) and cycle([True, False])
DriveModes == <<"user", "local_angle", "local">>
RecordingModes == <<TRUE, FALSE>>

\* The key None of a dict, and the result of btn_map.get for an unmapped code
NoBtn == "None"

\* self.btn_map: raw event code -> logical button name (from the configuration).
\* Code 307 is mapped to a button that has no handler; code 4 is unmapped.
btn_map ==
    (0 :> "LEFT_STICK_X") @@ (1 :> "LEFT_STICK_Y") @@
    (304 :> "B") @@ (305 :> "A") @@
    (544 :> "PAD_UP") @@ (545 :> "PAD_DOWN") @@ (307 :> "X")

\* the buttons of self.func_map
func_map_keys ==
    {"LEFT_STICK_X", "LEFT_STICK_Y", "B", "A", "PAD_UP", "PAD_DOWN"}

\* dict.get(key): the entry, or None
BtnMapGet(code) == IF code \in DOMAIN btn_map THEN btn_map[code] ELSE NoBtn

(***************************************************************************)
(* read_loop, lines 110-114: raw event -> (btn, val).                      *)
(***************************************************************************)
TranslateValAnyType(event) == Rat(event.value, joystick_max_value)

TranslateVal(event) ==
    IF event.type = EV_ABS
    THEN Rat(event.value, joystick_max_value)
    ELSE Num(event.value)

Translate(event) == [btn |-> BtnMapGet(event.code), val |-> TranslateVal(event)]

\* Python's  val == 1
IsOne(val) == val = Num(1)

(***************************************************************************)
(* Input devices of the host and find_input_device.                        *)
(* A name is a sequence of characters; lower() maps each character.        *)
(***************************************************************************)
Devices == {"pad1", "pad2", "kbd"}

DeviceName ==
    [d \in Devices |->
        CASE d = "pad1" -> <<"W", "i", "i", "U">>
          [] d = "pad2" -> <<"w", "I", "I">>
          [] d = "kbd"  -> <<"K", "e", "y">>]

\* self.device_search_term
device_search_term == <<"w", "i", "I">>

LowerChar(c) ==
    CASE c = "W" -> "w"
      [] c = "I" -> "i"
      [] c = "U" -> "u"
      [] c = "K" -> "k"
      [] OTHER -> c

Lower(s) == [i \in 1..Len(s) |-> LowerChar(s[i])]

\* Python's  sub in s  for strings
Contains(sub, s) ==
    \E i \in 0..(Len(s) - Len(sub)) :
        \A j \in 1..Len(sub) : s[i + j] = sub[j]

\* likely_devices of find_input_device over the devices now enumerable
LikelyDevices(all_devices, search_term) ==
    {d \in all_devices : Contains(Lower(search_term), Lower(DeviceName[d]))}

\* find_input_device: "one" with the device, "none" (returns None), or
\* "many" (raises ValueError)
FindInputDevicePickFirst(all_devices, search_term) ==
    LET likely == LikelyDevices(all_devices, search_term)
    IN  IF Cardinality(likely) >= 1
        THEN [kind |-> "one", dev |-> CHOOSE d \in likely : TRUE]
        ELSE [kind |-> "none", dev |-> "None"]

FindInputDevice(all_devices, search_term) ==
    LET likely == LikelyDevices(all_devices, search_term)
    IN  IF Cardinality(likely) = 1
        THEN [kind |-> "one", dev |-> CHOOSE d \in likely : TRUE]
        ELSE IF Cardinality(likely) >= 2
             THEN [kind |-> "many", dev |-> "None"]
             ELSE [kind |-> "none", dev |-> "None"]


(***************************************************************************)
(* State.                                                                  *)
(***************************************************************************)
VARIABLES
    \* BluetoothGameController fields
    angle, throttle, throttle_scale,
    drive_mode, drive_mode_toggle,
    recording, recording_toggle,
    state, running, device,
    \* where the controller's thread is: "idle" (between polls), "find"
    \* (in load_device, about to call find_input_device), "sleep" (in
    \* load_device's time.sleep(3)), "failed" (__init__ raised)
    pc,
    \* the caller load_device returns to: "init" (__init__) or "poll"
    \* (read_loop's except branch)
    ctx,
    \* the exception the last call of the controller ended with
    error,
    \* the host: the devices evdev.list_devices() enumerates now, whether
    \* the device behind self.device was removed after it was opened, and
    \* how often a removed device came back
    connected, gone, replugs,
    \* history: events read from the device, handler calls made, and the
    \* numbers of events with value 1 seen for A, B, PAD_UP and PAD_DOWN;
    \* whether shutdown() has returned
    reads, calls, nA, nB, nUp, nDown, shut,
    \* profile(): its locals event_total and results (the throughput of
    \* each finished window) and the pair (max, average) it prints
    event_total, results, report,
    \* a consumer thread inside run_threaded(): where it is ("idle", "angle",
    \* "throttle", "drive_mode", "recording": the attribute it loads next,
    \* "done": it has returned), the values loaded so far, and the
    \* (angle, throttle, drive_mode, recording) tuples the controller has
    \* held since the call began
    rt_pc, rt_ret, rt_seen,
    \* the events waiting in the device's queue, and for the comparison the
    \* events the device has produced and the events that were applied
    pending, produced, applied

control == <<angle, throttle, throttle_scale, drive_mode, drive_mode_toggle,
             recording, recording_toggle>>

history == <<reads, calls, nA, nB, nUp, nDown>>

host == <<connected, gone, replugs>>

profile_vars == <<event_total, results, report>>

reader_vars == <<rt_pc, rt_ret, rt_seen>>

batch_vars == <<pending, produced, applied>>

aux == <<profile_vars, reader_vars, batch_vars>>

vars == <<control, state, running, device, pc, ctx, error, host, history, shut, aux>>

\* what run() and run_threaded() return
ControlTuple == <<angle, throttle, drive_mode, recording>>

\* next() of an itertools.cycle over a list of n elements, as the index
\* of the element that the next call returns
CycleNextSkip(i, n) == ((i + 1) % n) + 1

CycleNext(i, n) == (i % n) + 1

(***************************************************************************)
(* __init__, lines 54-69 and 81-85.                                        *)
(***************************************************************************)
InitFields ==
    /\ running = FALSE
    /\ state = << >>
    /\ angle = Num(0)
    /\ throttle = Num(0)
    /\ throttle_scale = Num(1)
    /\ drive_mode = DriveModes[1]
    /\ drive_mode_toggle = CycleNext(1, Len(DriveModes))
    /\ recording = RecordingModes[1]
    /\ recording_toggle = CycleNext(1, Len(RecordingModes))

\* event_input_device is None: __init__ enters load_device; otherwise the
\* given device (an open handle of a connected device) becomes self.device
InitDevice ==
    /\ error = "None"
    /\ gone = FALSE
    /\ ctx = "init"
    /\ \/ pc = "find" /\ device = "None"
       \/ pc = "idle" /\ device \in connected

InitHistory ==
    /\ reads = 0 /\ calls = 0
    /\ nA = 0 /\ nB = 0 /\ nUp = 0 /\ nDown = 0
    /\ shut = FALSE
    /\ replugs = 0
    /\ event_total = 0 /\ results = << >> /\ report = << >>
    /\ rt_pc = "idle" /\ rt_ret = << >> /\ rt_seen = {}
    /\ pending = << >> /\ produced = << >> /\ applied = << >>

(***************************************************************************)
(* The handlers of func_map, lines 185-211.                                *)
(***************************************************************************)
update_angle(val) ==
    /\ angle' = val
    /\ UNCHANGED <<throttle, throttle_scale, drive_mode, drive_mode_toggle,
                   recording, recording_toggle>>

update_throttle_unsigned(val) ==
    /\ throttle' = RatMul(val, throttle_scale)
    /\ UNCHANGED <<angle, throttle_scale, drive_mode, drive_mode_toggle,
                   recording, recording_toggle>>

update_throttle(val) ==
    /\ throttle' = RatMul(RatMul(val, throttle_scale), y_axis_direction)
    /\ UNCHANGED <<angle, throttle_scale, drive_mode, drive_mode_toggle,
                   recording, recording_toggle>>

\* mutants: toggling on every value; toggling without advancing the cycle
toggle_recording_any(val) ==
    /\ recording' = RecordingModes[recording_toggle]
    /\ recording_toggle' = CycleNext(recording_toggle, Len(RecordingModes))
    /\ UNCHANGED <<angle, throttle, throttle_scale, drive_mode, drive_mode_toggle>>

toggle_recording_stuck(val) ==
    /\ IF IsOne(val)
       THEN recording' = RecordingModes[recording_toggle]
       ELSE UNCHANGED recording
    /\ UNCHANGED <<angle, throttle, throttle_scale, drive_mode, drive_mode_toggle,
                   recording_toggle>>

toggle_recording(val) ==
    /\ IF IsOne(val)
       THEN /\ recording' = RecordingModes[recording_toggle]
            /\ recording_toggle' = CycleNext(recording_toggle, Len(RecordingModes))
       ELSE UNCHANGED <<recording, recording_toggle>>
    /\ UNCHANGED <<angle, throttle, throttle_scale, drive_mode, drive_mode_toggle>>

toggle_drive_mode(val) ==
    /\ IF IsOne(val)
       THEN /\ drive_mode' = DriveModes[drive_mode_toggle]
            /\ drive_mode_toggle' = CycleNext(drive_mode_toggle, Len(DriveModes))
       ELSE UNCHANGED <<drive_mode, drive_mode_toggle>>
    /\ UNCHANGED <<angle, throttle, throttle_scale, recording, recording_toggle>>

increment_throttle_scale_any(val) ==
    /\ throttle_scale' = RatAdd(throttle_scale, throttle_scale_increment)
    /\ UNCHANGED <<angle, throttle, drive_mode, drive_mode_toggle,
                   recording, recording_toggle>>

\* mutant: the throttle follows the new scale at once
increment_throttle_scale_rescale(val) ==
    /\ IF IsOne(val)
       THEN /\ throttle_scale' = RatAdd(throttle_scale, throttle_scale_increment)
            /\ throttle' = RatMul(throttle,
                                  RatAdd(throttle_scale, throttle_scale_increment))
       ELSE UNCHANGED <<throttle_scale, throttle>>
    /\ UNCHANGED <<angle, drive_mode, drive_mode_toggle,
                   recording, recording_toggle>>

increment_throttle_scale(val) ==
    /\ IF IsOne(val)
       THEN throttle_scale' = RatAdd(throttle_scale, throttle_scale_increment)
       ELSE UNCHANGED throttle_scale
    /\ UNCHANGED <<angle, throttle, drive_mode, drive_mode_toggle,
                   recording, recording_toggle>>

\* mutant: the scale is held at 0
decrement_throttle_scale_floor(val) ==
    /\ IF IsOne(val) /\ throttle_scale.n > 0
       THEN throttle_scale' = RatSub(throttle_scale, throttle_scale_increment)
       ELSE UNCHANGED throttle_scale
    /\ UNCHANGED <<angle, throttle, drive_mode, drive_mode_toggle,
                   recording, recording_toggle>>

decrement_throttle_scale(val) ==
    /\ IF IsOne(val)
       THEN throttle_scale' = RatSub(throttle_scale, throttle_scale_increment)
       ELSE UNCHANGED throttle_scale
    /\ UNCHANGED <<angle, throttle, drive_mode, drive_mode_toggle,
                   recording, recording_toggle>>

(***************************************************************************)
(* update_state_from_loop, lines 125-131, for the pair read_loop returned. *)
(***************************************************************************)
\* mutant: no entry of self.state for the key None
RecordButtonSkipNone(btn, val) ==
    state' = IF btn = NoBtn THEN state ELSE (btn :> val) @@ state

\* mutant: an entry keeps the first value stored under its key
RecordButtonKeepFirst(btn, val) == state' = state @@ (btn :> val)

\* self.state[btn] = val
RecordButton(btn, val) == state' = (btn :> val) @@ state

\* mutant: a button without a handler is treated like the X axis
DispatchDefaultHandler(btn, val) ==
    /\ RecordButton(btn, val)
    /\ calls' = calls + 1
    /\ CASE btn = "LEFT_STICK_Y" -> update_throttle(val)
         [] btn = "B"            -> toggle_recording(val)
         [] btn = "A"            -> toggle_drive_mode(val)
         [] btn = "PAD_UP"       -> increment_throttle_scale(val)
         [] btn = "PAD_DOWN"     -> decrement_throttle_scale(val)
         [] OTHER                -> update_angle(val)

Dispatch(btn, val) ==
    /\ RecordButton(btn, val)
    /\ IF btn \in func_map_keys
       THEN /\ calls' = calls + 1
            /\ CASE btn = "LEFT_STICK_X" -> update_angle(val)
                 [] btn = "LEFT_STICK_Y" -> update_throttle(val)
                 [] btn = "B"            -> toggle_recording(val)
                 [] btn = "A"            -> toggle_drive_mode(val)
                 [] btn = "PAD_UP"       -> increment_throttle_scale(val)
                 [] btn = "PAD_DOWN"     -> decrement_throttle_scale(val)
       ELSE UNCHANGED <<control, calls>>

\* the counts of the events with value 1, taken from the event stream
Count(n, btn, ev) == IF ev.btn = btn /\ IsOne(ev.val) THEN n + 1 ELSE n

(***************************************************************************)
(* One poll whose device read succeeds: read_loop lines 109-114, then      *)
(* update_state_from_loop (called by run() or by an iteration of           *)
(* update()).                                                              *)
(***************************************************************************)
PollEvent(event) ==
    /\ pc = "idle"
    /\ device # "None" /\ ~gone
    /\ LET ev == Translate(event)
       IN  /\ Dispatch(ev.btn, ev.val)
           /\ nA' = Count(nA, "A", ev)
           /\ nB' = Count(nB, "B", ev)
           /\ nUp' = Count(nUp, "PAD_UP", ev)
           /\ nDown' = Count(nDown, "PAD_DOWN", ev)
    /\ reads' = reads + 1
    /\ error' = "None"
    /\ rt_seen' = IF rt_pc \in {"idle", "done"}
                  THEN rt_seen
                  ELSE rt_seen \cup {ControlTuple'}
    /\ UNCHANGED <<running, device, pc, ctx, host, shut, profile_vars, rt_pc, rt_ret>>

\* the poll of a device that delivers its events one at a time
ReadEvent(event) ==
    /\ reads < MaxEvents
    /\ PollEvent(event)
    /\ UNCHANGED batch_vars

(***************************************************************************)
(* One poll whose device read raises OSError: read_loop lines 115-118, up  *)
(* to the call of load_device (the 0.1 s sleep has passed).                *)
(***************************************************************************)
ReadLost ==
    /\ pc = "idle"
    /\ device # "None" /\ gone
    /\ pc' = "find"
    /\ ctx' = "poll"
    /\ UNCHANGED <<control, state, running, device, error, host, history, shut, aux>>

(***************************************************************************)
(* load_device, lines 38-43: one iteration of its loop.  When the device   *)
(* is found load_device returns: to __init__, or to read_loop, which       *)
(* returns (None, None) to update_state_from_loop (lines 119, 126-131).    *)
(* A ValueError of find_input_device is caught nowhere.                    *)
(***************************************************************************)
\* mutant: the outputs are reset when the device has been found again
LoadReturnReset ==
    IF ctx = "poll"
    THEN /\ state' = (NoBtn :> None) @@ state
         /\ angle' = Num(0)
         /\ throttle' = Num(0)
         /\ UNCHANGED <<throttle_scale, drive_mode, drive_mode_toggle,
                        recording, recording_toggle, calls>>
    ELSE UNCHANGED <<control, state, calls>>

LoadReturn ==
    IF ctx = "poll"
    THEN Dispatch(NoBtn, None)
    ELSE UNCHANGED <<control, state, calls>>

(***************************************************************************)
(* A device whose events wait in a queue until they are read.  The poll    *)
(* is line 109, next(self.device.read_loop()): read_loop() of evdev's      *)
(* InputDevice is a generator that waits until the device is readable,     *)
(* reads all the events then available and yields them one by one.  A      *)
(* poll builds a new generator, takes its first event and drops the        *)
(* generator, and with it the other events the generator had read.         *)
(***************************************************************************)
Produce(event) ==
    /\ device # "None" /\ ~gone
    /\ Len(produced) < MaxProduced
    /\ pending' = Append(pending, event)
    /\ produced' = Append(produced, event)
    /\ UNCHANGED <<control, state, running, device, pc, ctx, error, host,
                   history, shut, profile_vars, reader_vars, applied>>

ReadBatch ==
    /\ pending # << >>
    /\ PollEvent(Head(pending))
    /\ applied' = Append(applied, Head(pending))
    /\ pending' = << >>
    /\ UNCHANGED produced

\* mutant: load_device returns without assigning self.device
LoadDeviceKeepHandle ==
    /\ pc = "find"
    /\ LET found == FindInputDevice(connected, device_search_term)
       IN  CASE found.kind = "one" ->
                  /\ pc' = "idle"
                  /\ error' = "None"
                  /\ LoadReturn
                  /\ UNCHANGED <<device, gone>>
             [] found.kind = "none" ->
                  /\ pc' = "sleep"
                  /\ UNCHANGED <<control, state, calls, device, gone, error>>
             [] found.kind = "many" ->
                  /\ pc' = IF ctx = "init" THEN "failed" ELSE "idle"
                  /\ error' = "ValueError"
                  /\ UNCHANGED <<control, state, calls, device, gone>>
    /\ UNCHANGED <<running, ctx, connected, replugs, reads, nA, nB, nUp, nDown, shut, aux>>

\* mutant: load_device gives up after one attempt
LoadDeviceGiveUp ==
    /\ pc = "find"
    /\ LET found == FindInputDevice(connected, device_search_term)
       IN  CASE found.kind = "one" ->
                  /\ device' = found.dev
                  /\ gone' = FALSE
                  /\ pc' = "idle"
                  /\ error' = "None"
                  /\ LoadReturn
             [] found.kind = "none" ->
                  /\ pc' = "idle"
                  /\ error' = "None"
                  /\ LoadReturn
                  /\ UNCHANGED <<device, gone>>
             [] found.kind = "many" ->
                  /\ pc' = IF ctx = "init" THEN "failed" ELSE "idle"
                  /\ error' = "ValueError"
                  /\ UNCHANGED <<control, state, calls, device, gone>>
    /\ UNCHANGED <<running, ctx, connected, replugs, reads, nA, nB, nUp, nDown, shut, aux>>

LoadDevice ==
    /\ pc = "find"
    /\ LET found == FindInputDevice(connected, device_search_term)
       IN  CASE found.kind = "one" ->
                  /\ device' = found.dev
                  /\ gone' = FALSE
                  /\ pc' = "idle"
                  /\ error' = "None"
                  /\ LoadReturn
             [] found.kind = "none" ->
                  /\ pc' = "sleep"
                  /\ UNCHANGED <<control, state, calls, device, gone, error>>
             [] found.kind = "many" ->
                  /\ pc' = IF ctx = "init" THEN "failed" ELSE "idle"
                  /\ error' = "ValueError"
                  /\ UNCHANGED <<control, state, calls, device, gone>>
    /\ UNCHANGED <<running, ctx, connected, replugs, reads, nA, nB, nUp, nDown, shut, aux>>

\* time.sleep(3) of load_device is over
Wake ==
    /\ pc = "sleep"
    /\ pc' = "find"
    /\ UNCHANGED <<control, state, running, device, ctx, error, host, history, shut, aux>>

(***************************************************************************)
(* shutdown, lines 147-149.                                                *)
(***************************************************************************)
Shutdown ==
    /\ pc # "failed"
    /\ ~(ctx = "init" /\ pc \in {"find", "sleep"})
    /\ running' = FALSE
    /\ shut' = TRUE
    /\ UNCHANGED <<control, state, device, pc, ctx, error, host, history, aux>>

(***************************************************************************)
(* The host: a device is removed, a removed device comes back.             *)
(***************************************************************************)
Unplug(d) ==
    /\ d \in connected
    /\ connected' = connected \ {d}
    /\ gone' = (gone \/ d = device)
    /\ UNCHANGED <<control, state, running, device, pc, ctx, error, replugs,
                   history, shut, aux>>

Plug(d) ==
    /\ d \notin connected
    /\ replugs < MaxReplugs
    /\ connected' = connected \cup {d}
    /\ replugs' = replugs + 1
    /\ UNCHANGED <<control, state, running, device, pc, ctx, error, gone,
                   history, shut, aux>>

(***************************************************************************)
(* run_threaded, lines 144-145, called by the consumer in its own thread   *)
(* while update() polls in another.  Its return statement loads the four   *)
(* attributes one after the other and then builds the tuple; the           *)
(* interpreter may switch threads between two loads.                       *)
(***************************************************************************)
RunThreadedCall ==
    /\ rt_pc = "idle"
    /\ rt_pc' = "angle"
    /\ rt_ret' = << >>
    /\ rt_seen' = {ControlTuple}
    /\ UNCHANGED <<control, state, running, device, pc, ctx, error, host,
                   history, shut, profile_vars, batch_vars>>

RunThreadedLoad ==
    /\ rt_pc \in {"angle", "throttle", "drive_mode", "recording"}
    /\ CASE rt_pc = "angle" ->
                rt_ret' = Append(rt_ret, angle) /\ rt_pc' = "throttle"
         [] rt_pc = "throttle" ->
                rt_ret' = Append(rt_ret, throttle) /\ rt_pc' = "drive_mode"
         [] rt_pc = "drive_mode" ->
                rt_ret' = Append(rt_ret, drive_mode) /\ rt_pc' = "recording"
         [] rt_pc = "recording" ->
                rt_ret' = Append(rt_ret, recording) /\ rt_pc' = "done"
    /\ UNCHANGED <<control, state, running, device, pc, ctx, error, host,
                   history, shut, profile_vars, batch_vars, rt_seen>>

\* the consumer has the tuple and may call again
RunThreadedReturn ==
    /\ rt_pc = "done"
    /\ rt_pc' = "idle"
    /\ rt_ret' = << >>
    /\ rt_seen' = {}
    /\ UNCHANGED <<control, state, running, device, pc, ctx, error, host,
                   history, shut, profile_vars, batch_vars>>

(***************************************************************************)
(* profile, lines 151-181.  The command line calls it once, right after    *)
(* the construction.  One step is one iteration of its loop: a read whose  *)
(* result is dropped, the count, and when the count has passed             *)
(* profile_window the end of the window, whose duration in seconds is the  *)
(* input of the step; the iteration that ends the last window goes on to   *)
(* the report.                                                             *)
(***************************************************************************)
\* if event_total > 1000
profile_window == 1000
\* if len(results) > 9
profile_windows == 9
\* sorted_results[5:]
profile_discard == 5

\* the durations a window may have, in seconds
Elapsed == {7, 11}

ProfileCall ==
    /\ pc = "idle" /\ error = "None"
    /\ reads = 0 /\ report = << >>
    /\ pc' = "profile"
    /\ event_total' = 0
    /\ results' = << >>
    /\ UNCHANGED <<control, state, running, device, ctx, error, host, history,
                   shut, report, reader_vars, batch_vars>>

\* lines 175-178: (max, average) of the results that are kept
ProfileReport(res) ==
    LET sorted_results == Sorted(res)
        best_5_results == SubSeq(sorted_results, profile_discard + 1,
                                 Len(sorted_results))
    IN  <<best_5_results[Len(best_5_results)],
          RatDiv(Sum(best_5_results), Num(Len(best_5_results)))>>

ProfileRead(seconds_elapsed) ==
    /\ pc = "profile"
    /\ device # "None" /\ ~gone
    /\ reads' = reads + 1
    /\ IF event_total + 1 > profile_window
       THEN LET res == Append(results,
                              RatDiv(Num(event_total + 1), Num(seconds_elapsed)))
            IN  /\ results' = res
                /\ event_total' = 0
                /\ IF Len(res) > profile_windows
                   THEN report' = ProfileReport(res) /\ pc' = "idle"
                   ELSE UNCHANGED <<report, pc>>
       ELSE /\ event_total' = event_total + 1
            /\ UNCHANGED <<results, report, pc>>
    /\ UNCHANGED <<control, state, running, device, ctx, error, host,
                   calls, nA, nB, nUp, nDown, shut, reader_vars, batch_vars>>

(***************************************************************************)
(* The raw events a device delivers.                                       *)
(***************************************************************************)
Event(t, c, v) == [type |-> t, code |-> c, value |-> v]

RawEvents ==
    {Event(EV_KEY, c, v) : c \in {304, 305, 544, 545}, v \in {0, 1}}
    \cup {Event(EV_ABS, 0, 640), Event(EV_ABS, 1, 640), Event(EV_ABS, 1, -1280)}
    \cup {Event(EV_KEY, 307, 1), Event(EV_KEY, 4, 1)}
    \cup {Event(EV_KEY, 305, 2), Event(EV_ABS, 304, 1280)}

(***************************************************************************)
(* The controller polled by its consumer, with one game controller.        *)
(***************************************************************************)
Init ==
    /\ connected \in SUBSET {"pad1"}
    /\ InitFields /\ InitDevice /\ InitHistory

Next ==
    \/ \E event \in RawEvents : ReadEvent(event)
    \/ ReadLost
    \/ LoadDevice
    \/ Wake
    \/ Shutdown
    \/ \E d \in {"pad1"} : Unplug(d)
    \/ \E d \in {"pad1"} : Plug(d)

Spec == Init /\ [][Next]_vars


(***************************************************************************)
(* The controller with a device that delivers events of every type (0 is   *)
(* a synchronisation event), on mapped and unmapped codes, with values     *)
(* inside and outside the range of joystick_max_value.                     *)
(***************************************************************************)
EventTypes == {0, EV_KEY, EV_ABS}

WideEvents ==
    {Event(t, c, v) : t \in EventTypes, c \in {0, 305, 307, 4},
                      v \in {-1280, 1, 640, 2560}}

WideRead(event) ==
    /\ reads < MaxWideEvents
    /\ PollEvent(event)
    /\ UNCHANGED batch_vars

WideNext ==
    \/ \E event \in WideEvents : WideRead(event)
    \/ ReadLost
    \/ LoadDevice
    \/ Wake
    \/ \E d \in {"pad1"} : Unplug(d)
    \/ \E d \in {"pad1"} : Plug(d)

WideSpec == Init /\ [][WideNext]_vars


(***************************************************************************)
(* The controller with a device on which only the pad is used: long runs   *)
(* of PAD_UP and PAD_DOWN events, pressed (1) and released (0).            *)
(***************************************************************************)
ScaleEvents == {Event(EV_KEY, c, v) : c \in {544, 545}, v \in {0, 1}}

ScaleRead(event) ==
    /\ reads < MaxPresses
    /\ PollEvent(event)
    /\ UNCHANGED batch_vars

ScaleInit ==
    /\ connected = {"pad1"}
    /\ InitFields /\ InitDevice /\ InitHistory

ScaleNext ==
    \/ \E event \in ScaleEvents : ScaleRead(event)
    \/ LoadDevice

ScaleSpec == ScaleInit /\ [][ScaleNext]_vars


(***************************************************************************)
(* update() polling in a worker thread and the consumer calling            *)
(* run_threaded() from its own thread.                                     *)
(***************************************************************************)
ConcEvents ==
    {Event(EV_ABS, 0, 640), Event(EV_ABS, 1, 640),
     Event(EV_KEY, 305, 1), Event(EV_KEY, 304, 1)}

ConcRead(event) ==
    /\ reads < MaxConcEvents
    /\ PollEvent(event)
    /\ UNCHANGED batch_vars

ConcNext ==
    \/ \E event \in ConcEvents : ConcRead(event)
    \/ LoadDevice
    \/ RunThreadedCall
    \/ RunThreadedLoad
    \/ RunThreadedReturn

ConcSpec == ScaleInit /\ [][ConcNext]_vars


(***************************************************************************)
(* The command `profile`: the construction, then profile() on a device     *)
(* that keeps delivering events.                                           *)
(***************************************************************************)
ProfileNext ==
    \/ LoadDevice
    \/ ProfileCall
    \/ \E seconds_elapsed \in Elapsed : ProfileRead(seconds_elapsed)

ProfileSpec == ScaleInit /\ [][ProfileNext]_vars


(***************************************************************************)
(* The controller polled while the device produces events at its own pace: *)
(* none, one or several between two polls.                                 *)
(***************************************************************************)
BatchEvents ==
    {Event(EV_ABS, 0, 640), Event(EV_ABS, 1, 640), Event(EV_KEY, 305, 1)}

BatchNext ==
    \/ LoadDevice
    \/ \E event \in BatchEvents : Produce(event)
    \/ ReadBatch

BatchSpec == ScaleInit /\ [][BatchNext]_vars


(***************************************************************************)
(* The device session on a host with several input devices, two of which   *)
(* match the search term; the device delivers a few kinds of events.       *)
(***************************************************************************)
SessionEvents ==
    {Event(EV_KEY, 305, 1), Event(EV_ABS, 1, 640), Event(EV_KEY, 4, 1)}

SessionInit ==
    /\ connected \in SUBSET Devices
    /\ InitFields /\ InitDevice /\ InitHistory

Poll == (\E event \in SessionEvents : ReadEvent(event)) \/ ReadLost

SessionNext ==
    \/ Poll
    \/ LoadDevice
    \/ Wake
    \/ Shutdown
    \/ \E d \in Devices : Unplug(d)
    \/ \E d \in Devices : Plug(d)

SessionSpec == SessionInit /\ [][SessionNext]_vars

\* The same session with a thread that keeps running: a sleep ends,
\* load_device goes on, a poll is made again and its read returns an event
\* (the device delivers button presses) or fails.
FairSessionEvents == {Event(EV_KEY, 305, 1)}

FairPoll == (\E event \in FairSessionEvents : ReadEvent(event)) \/ ReadLost

FairSessionNext ==
    \/ FairPoll
    \/ LoadDevice
    \/ Wake
    \/ Shutdown
    \/ \E d \in Devices : Unplug(d)
    \/ \E d \in Devices : Plug(d)

FairSessionSpec ==
    /\ SessionInit /\ [][FairSessionNext]_vars
    /\ WF_vars(LoadDevice)
    /\ WF_vars(Wake)
    /\ WF_vars(FairPoll)


(***************************************************************************)
(* Vocabulary of the properties.                                           *)
(***************************************************************************)
\* this step is a poll that read an event translated to button btn
Applies(btn) ==
    \E event \in RawEvents : ReadEvent(event) /\ Translate(event).btn = btn

\* this step is a poll that read an event of button btn with value 1
AppliesOne(btn) ==
    \E event \in RawEvents :
        ReadEvent(event) /\ Translate(event) = [btn |-> btn, val |-> Num(1)]

\* the thread is inside load_device
Loading == pc \in {"find", "sleep"}

\* this step belongs to a poll whose read raised OSError: the failed read,
\* the re-acquisition, or the return of the poll
LostPollStep == ctx' = "poll" /\ (Loading \/ Loading')

\* the last call of the controller has returned
Returned == pc = "idle" /\ error = "None"

\* the session has lost its device and has not yet read from another
Lost == (pc = "idle" /\ gone) \/ (ctx = "poll" /\ Loading)

\* this step is the return of a poll whose read raised OSError
LostPollReturns == LoadDevice /\ ctx = "poll" /\ Returned'

\* this step is the return of a poll
PollReturns == (\E event \in RawEvents : ReadEvent(event)) \/ LostPollReturns

\* a button's entry of self.state, now and after the step
Recorded(btn, val) == btn \in DOMAIN state /\ state[btn] = val

RecordedNext(btn, val) == btn \in DOMAIN state' /\ state'[btn] = val

\* the last poll lost the connection and its re-acquisition raised
\* ValueError: self.device is still the handle whose read raised OSError
StaleHandle == pc = "idle" /\ ctx = "poll" /\ error = "ValueError"

\* this step is a poll of SessionSpec whose read returns an event
SessionReads == \E event \in SessionEvents : ReadEvent(event)

\* the control fields, of the five, that the step changes
ChangedFields ==
    {f \in 1..5 :
        <<angle, throttle, drive_mode, recording, throttle_scale>>[f]
            # <<angle', throttle', drive_mode', recording', throttle_scale'>>[f]}

\* after the step self.state is what it was, but for the entry of key
KeepsOthers(key) ==
    /\ DOMAIN state' = DOMAIN state \cup {key}
    /\ \A k \in DOMAIN state \ {key} : state'[k] = state[k]

\* the logical button names
ButtonNames == {btn_map[code] : code \in DOMAIN btn_map}

\* the devices whose name contains the search term, letter case ignored:
\* "WiiU" and "wII" contain "wii", "Key" does not
Matching == {"pad1", "pad2"}

MatchingNow == Matching \cap connected

(***************************************************************************)
(* C1: drive_mode and recording keep their initial values as long as no    *)
(* 'A' (resp. 'B') event with value 1 has been polled, whatever else was   *)
(* polled; drive_mode changes only in a step that applies an 'A' event     *)
(* with value 1 and recording only in a step that applies a 'B' event with *)
(* value 1.                                                                *)
(***************************************************************************)
C1_PressEdgeOnly ==
    /\ [](nA = 0 => drive_mode = "user")
    /\ [](nB = 0 => recording = TRUE)
    /\ [][(drive_mode' # drive_mode => AppliesOne("A"))
          /\ (recording' # recording => AppliesOne("B"))]_vars

\* A and B were released, a connection loss was polled, nothing toggled
C1_Witness ==
    /\ Recorded("A", Num(0)) /\ Recorded("B", Num(0)) /\ Recorded(NoBtn, None)
    /\ nA = 0 /\ nB = 0 /\ nUp = 1
    /\ drive_mode = "user" /\ recording = TRUE

(***************************************************************************)
(* C2: after N 'B' events with value 1, recording is True when N is even   *)
(* and False when N is odd.                                                *)
(***************************************************************************)
C2_RecordingParity == recording = (nB % 2 = 0)

\* three presses of B and one other event: recording is off
C2_Witness == nB = 3 /\ reads = 4 /\ recording = FALSE

(***************************************************************************)
(* C3: after N 'A' events with value 1, drive_mode is the element N mod 3  *)
(* of [user, local_angle, local]; successive modes follow                  *)
(* user -> local_angle -> local -> user.                                   *)
(***************************************************************************)
C3_DriveModeCycle ==
    /\ [](drive_mode = CASE nA % 3 = 0 -> "user"
                         [] nA % 3 = 1 -> "local_angle"
                         [] nA % 3 = 2 -> "local")
    /\ [][drive_mode' # drive_mode =>
            <<drive_mode, drive_mode'>> \in
                {<<"user", "local_angle">>, <<"local_angle", "local">>,
                 <<"local", "user">>}]_vars

\* four presses of A: once around the cycle and one step further
C3_Witness == nA = 4 /\ drive_mode = "local_angle"

(***************************************************************************)
(* C4: no step of a poll that lost the connection (the failed read, the    *)
(* re-acquisition, the return) changes angle, throttle, drive_mode,        *)
(* recording, throttle_scale or a toggle position, or calls a handler.     *)
(***************************************************************************)
C4_LossKeepsControl ==
    [][LostPollStep => UNCHANGED <<control, calls, reads, nA, nB, nUp, nDown>>]_vars

\* a poll lost the connection and returned after the device was found
\* again, with a control state that is not the initial one
C4_Witness ==
    /\ Recorded(NoBtn, None) /\ pc = "idle" /\ ~gone /\ error = "None"
    /\ drive_mode = "local" /\ recording = FALSE /\ angle = Rat(1, 2)

(***************************************************************************)
(* C5 as stated: every return of a poll has read one event from the        *)
(* device and applied it, also the poll that lost the connection.          *)
(***************************************************************************)
C5_EveryReturnReadOne == [][PollReturns => reads' = reads + 1]_vars

(***************************************************************************)
(* C5 amended: a poll whose read succeeds returns having applied exactly   *)
(* the one event it read; a poll that lost the connection returns after    *)
(* the re-acquisition without having read any event: it records            *)
(* state[None] = None and leaves the control fields as they were.          *)
(***************************************************************************)
C5_ReturnReadAtMostOne ==
    [][/\ \A event \in RawEvents :
            ReadEvent(event) =>
                /\ reads' = reads + 1
                /\ RecordedNext(Translate(event).btn, Translate(event).val)
       /\ LostPollReturns =>
                /\ reads' = reads
                /\ calls' = calls
                /\ control' = control
                /\ RecordedNext(NoBtn, None)]_vars

\* a poll has returned without an event, after others that read one
C5_Witness ==
    /\ Recorded(NoBtn, None) /\ pc = "idle" /\ ctx = "poll" /\ error = "None"
    /\ reads = 2 /\ Recorded("A", Num(1))


(***************************************************************************)
(* C6: while no enumerable device matches, load_device neither returns nor *)
(* fails (it sleeps and tries again); it returns only with self.device set *)
(* to the one device that matched in its last enumeration.  With the       *)
(* thread kept running: if exactly one device matches from now on,         *)
(* load_device returns, and a session that lost its device delivers a      *)
(* further event.                                                          *)
(***************************************************************************)
C6_AcquireRetries ==
    /\ [][(Loading /\ MatchingNow = {}) =>
            (Loading' /\ device' = device /\ error' = error)]_vars
    /\ [][(Loading /\ Returned') =>
            (pc = "find" /\ MatchingNow = {device'} /\ ~gone')]_vars
    /\ Loading ~> (Returned \/ Cardinality(MatchingNow) # 1)
    /\ \A k \in 0..(MaxEvents - 1) :
          (Lost /\ reads = k) ~> (reads > k \/ Cardinality(MatchingNow) # 1)

\* after a connection loss and a backoff the device was found again and
\* delivered an event
C6_Witness ==
    /\ Recorded(NoBtn, None) /\ replugs >= 1 /\ Returned /\ ~gone
    /\ device = "pad2" /\ reads = 2 /\ connected = {"pad2", "kbd"}

(***************************************************************************)
(* C7: when find_input_device enumerates two or more matching devices,    *)
(* in __init__ or in a re-acquisition, the ValueError reaches the caller   *)
(* in that step: no sleep, no further attempt, self.device as it was.      *)
(***************************************************************************)
C7_AmbiguityFailsFast ==
    [][(pc = "find" /\ Cardinality(MatchingNow) >= 2
            /\ UNCHANGED <<connected, shut>>) =>
         /\ error' = "ValueError"
         /\ pc' = (IF ctx = "init" THEN "failed" ELSE "idle")
         /\ UNCHANGED <<device, gone, control, state, history>>]_vars

\* a re-acquisition has failed on two matching devices
C7_Witness ==
    /\ error = "ValueError" /\ ctx = "poll" /\ pc = "idle"
    /\ Matching \subseteq connected /\ gone /\ reads >= 1

(***************************************************************************)
(* C8 as stated: once shutdown() has returned, no poll reads the device    *)
(* or changes the control state.                                           *)
(***************************************************************************)
C8_ShutdownHaltsPolling ==
    [][shut => (reads' = reads /\ control' = control /\ state' = state)]_vars

(***************************************************************************)
(* C9: a step that applies a LEFT_STICK_Y event of value v sets throttle   *)
(* to -(v * s), s the throttle_scale before the step; v = 1/2 and s = 1    *)
(* give -1/2, and v < 0 with s > 0 gives a positive throttle.              *)
(***************************************************************************)
C9_ThrottleSign ==
    [][Applies("LEFT_STICK_Y") =>
         /\ "LEFT_STICK_Y" \in DOMAIN state'
         /\ LET v == state'["LEFT_STICK_Y"]
                s == throttle_scale
            IN  /\ throttle'.d > 0
                /\ throttle'.n * (v.d * s.d) = (0 - v.n * s.n) * throttle'.d
                /\ (v = Rat(1, 2) /\ s = Num(1)) => throttle' = Rat(-1, 2)
                /\ (v.n < 0 /\ s.n > 0) => throttle'.n > 0]_vars

\* stick pushed forward by the whole range with the scale raised to 1.05
C9_Witness ==
    /\ Recorded("LEFT_STICK_Y", Num(-1))
    /\ throttle_scale = Rat(21, 20) /\ throttle = Rat(21, 20)

(***************************************************************************)
(* C10: after i PAD_UP and d PAD_DOWN events with value 1, throttle_scale  *)
(* is 1 + (i - d) / 20, whatever other events arrived; four PAD_UP events  *)
(* with value 1 give 6/5.                                                  *)
(***************************************************************************)
C10_ThrottleScaleSteps ==
    /\ throttle_scale.d > 0
    /\ throttle_scale.n * 20 = (20 + nUp - nDown) * throttle_scale.d
    /\ (nUp = 4 /\ nDown = 0) => throttle_scale = Rat(12, 10)

\* four presses of PAD_UP
C10_Witness == nUp = 4 /\ nDown = 0 /\ throttle_scale = Rat(6, 5)

(***************************************************************************)
(* C11: read_loop translates a raw event from its type, code and value     *)
(* alone: in every poll that reads an event, from whatever state and after *)
(* whatever events, the button recorded is the button-map entry of the     *)
(* code (None when there is none), and the value recorded under it is      *)
(* exactly value / joystick_max_value for an event of type EV_ABS and the  *)
(* raw value itself for an event of any other type.                        *)
(***************************************************************************)
C11_TranslationExact ==
    [][\A event \in WideEvents :
          WideRead(event) =>
              LET btn == IF event.code \in DOMAIN btn_map
                         THEN btn_map[event.code]
                         ELSE NoBtn
              IN  /\ btn \in DOMAIN state'
                  /\ IF event.type = EV_ABS
                     THEN /\ state'[btn].d > 0
                          /\ state'[btn].n * joystick_max_value
                                 = event.value * state'[btn].d
                     ELSE state'[btn] = [n |-> event.value, d |-> 1]]_vars

\* 640 on the X axis was recorded as 1/2, and a key event with value 640 as 640
C11_Witness ==
    /\ Recorded("LEFT_STICK_X", [n |-> 1, d |-> 2])
    /\ Recorded("A", [n |-> 640, d |-> 1])

(***************************************************************************)
(* C12 as stated: throttle_scale >= 0 in every reachable state, for every  *)
(* sequence of PAD_UP and PAD_DOWN events from the initial value 1.0.      *)
(***************************************************************************)
C12_ThrottleScaleNonNegative == throttle_scale.n >= 0

(***************************************************************************)
(* C12: throttle_scale has no floor.  It is positive while the PAD_DOWN    *)
(* events with value 1 outnumber the PAD_UP events with value 1 by at most *)
(* 19, and negative once they outnumber them by 21 or more.                *)
(***************************************************************************)
C12_ThrottleScaleSign ==
    /\ throttle_scale.d > 0
    /\ nDown - nUp <= 19 => throttle_scale.n > 0
    /\ nDown - nUp >= 21 => throttle_scale.n < 0

\* 21 presses of PAD_DOWN more than of PAD_UP: the scale is -1/20
C12_Witness == nDown - nUp = 21 /\ throttle_scale = [n |-> -1, d |-> 20]

(***************************************************************************)
(* C13 as stated: angle lies in [-1, 1] in every reachable state, whatever *)
(* the type and the value of the events on the code of LEFT_STICK_X.       *)
(***************************************************************************)
C13_AngleInRange ==
    /\ angle.d > 0
    /\ -angle.d <= angle.n /\ angle.n <= angle.d

(***************************************************************************)
(* C14 as stated: with update() running in a worker thread, every tuple    *)
(* run_threaded() returns equals the four fields (angle, throttle,         *)
(* drive_mode, recording) as they were together at one instant during the  *)
(* call.                                                                   *)
(***************************************************************************)
C14_NoTornRead == rt_pc = "done" => rt_ret \in rt_seen

(***************************************************************************)
(* C15 as stated: self.state has entries under logical button names only;  *)
(* a poll without a button name (unmapped code, lost connection) adds or   *)
(* overwrites no entry.                                                    *)
(***************************************************************************)
C15_OnlyNamedEntries == NoBtn \notin DOMAIN state

(***************************************************************************)
(* C15 amended: every poll writes one entry of self.state and touches no   *)
(* other: under the button name of the event it read, under the key None   *)
(* for an unmapped code (with the event's value) and for a poll that lost  *)
(* the connection (with the value None).  No other step changes            *)
(* self.state, so each entry holds the value of the most recent event of   *)
(* its key.                                                                *)
(***************************************************************************)
C15_EveryPollRecords ==
    [][/\ DOMAIN state' \subseteq ButtonNames \cup {NoBtn}
       /\ \A event \in RawEvents :
            ReadEvent(event) =>
                LET key == IF event.code \in DOMAIN btn_map
                           THEN btn_map[event.code]
                           ELSE NoBtn
                IN  /\ RecordedNext(key, TranslateVal(event))
                    /\ KeepsOthers(key)
       /\ LostPollReturns => RecordedNext(NoBtn, None) /\ KeepsOthers(NoBtn)
       /\ ~PollReturns => state' = state]_vars

\* 'A' was pressed and released, then an event of an unmapped code arrived
C15_Witness ==
    /\ nA = 1 /\ Recorded("A", Num(0))
    /\ Recorded(NoBtn, Num(1))

(***************************************************************************)
(* C16: a poll that reads an event whose code has no button-map entry, or  *)
(* whose button has no handler, returns without an error and without a     *)
(* handler call, and leaves angle, throttle, drive_mode, recording and     *)
(* throttle_scale (and the two toggles) as they were, whatever the type    *)
(* and the value of the event.                                             *)
(***************************************************************************)
C16_UnhandledIgnored ==
    [][\A event \in WideEvents :
          (/\ WideRead(event)
           /\ \/ event.code \notin DOMAIN btn_map
              \/ btn_map[event.code] \notin func_map_keys) =>
              /\ control' = control
              /\ calls' = calls
              /\ error' = "None" /\ pc' = "idle"]_vars

\* after a move of the stick, an event with value 1 of an unmapped code and
\* one of the button 'X', which has no handler, have been polled
C16_Witness ==
    /\ reads = 3 /\ calls = 1 /\ error = "None" /\ pc = "idle"
    /\ angle = Rat(1, 2)
    /\ Recorded(NoBtn, Num(1)) /\ Recorded("X", Num(1))

(***************************************************************************)
(* C17 as stated: profile() measures windows of exactly 1000 events each,  *)
(* so the events read are 1000 for each finished window plus those of the  *)
(* window in progress, and it ends after 10 windows, having read exactly   *)
(* 10000 events.                                                           *)
(***************************************************************************)
C17_ProfileTenThousand ==
    /\ reads = 1000 * Len(results) + event_total
    /\ report # << >> => (Len(results) = 10 /\ reads = 10000)

(***************************************************************************)
(* C18 as stated: once a read on self.device has raised OSError, the       *)
(* session never reads that handle again.                                  *)
(***************************************************************************)
C18_NeverReadsLostHandle == [][~(StaleHandle /\ ReadLost)]_vars

(***************************************************************************)
(* C18 amended: self.device holds one handle and changes only when         *)
(* load_device returns; a poll that lost the connection and returns has    *)
(* replaced the lost handle by a live handle of the one matching device,   *)
(* and every read that returns an event is on the live handle held since   *)
(* the last return of load_device.  When the re-acquisition raises         *)
(* ValueError the lost handle stays in self.device, and the next poll      *)
(* reads it again, fails again and re-acquires again.                      *)
(***************************************************************************)
C18_HandleReplacedOnSuccess ==
    /\ [][/\ device \in Devices \cup {"None"}
          /\ device' # device => (LoadDevice /\ Returned')
          /\ LostPollReturns =>
                (~gone' /\ MatchingNow = {device'} /\ ~StaleHandle')
          /\ SessionReads => (~gone /\ ~StaleHandle /\ device' = device)
          /\ (LoadDevice /\ ctx = "poll" /\ Cardinality(MatchingNow) >= 2) =>
                (device' = device /\ gone' /\ StaleHandle')]_vars
    /\ [][(StaleHandle /\ UNCHANGED <<connected, shut>>) =>
            (ReadLost /\ pc' = "find")]_vars

\* after an event was read the connection was lost; devices were plugged
\* in again, and the poll has returned with a live handle of the one
\* matching device
C18_Witness ==
    /\ reads = 1 /\ Recorded("A", Num(1)) /\ Recorded(NoBtn, None)
    /\ device = "pad2" /\ ~gone /\ Returned /\ ctx = "poll"
    /\ connected = {"pad2"} /\ replugs = 2

(***************************************************************************)
(* C19: a step changes at most one of angle, throttle, drive_mode,         *)
(* recording and throttle_scale, and only in a poll that applies an event  *)
(* of the button whose handler owns the field: angle with LEFT_STICK_X,    *)
(* throttle with LEFT_STICK_Y, recording with B, drive_mode with A,        *)
(* throttle_scale with PAD_UP or PAD_DOWN.  So throttle keeps its value    *)
(* when throttle_scale changes.                                            *)
(***************************************************************************)
C19_OneFieldPerEvent ==
    [][/\ Cardinality(ChangedFields) <= 1
       /\ angle' # angle => Applies("LEFT_STICK_X")
       /\ throttle' # throttle => Applies("LEFT_STICK_Y")
       /\ recording' # recording => AppliesOne("B")
       /\ drive_mode' # drive_mode => AppliesOne("A")
       /\ throttle_scale' # throttle_scale =>
             (AppliesOne("PAD_UP") \/ AppliesOne("PAD_DOWN"))
       /\ (Applies("PAD_UP") \/ Applies("PAD_DOWN")) => throttle' = throttle]_vars

\* the stick was at 1/2 with scale 1, then PAD_UP was pressed: the throttle
\* is still -1/2
C19_Witness ==
    /\ Recorded("LEFT_STICK_Y", Rat(1, 2)) /\ Recorded("PAD_UP", Num(1))
    /\ throttle = Rat(-1, 2) /\ throttle_scale = Rat(21, 20)

(***************************************************************************)
(* C20 as stated: without a connection loss the events applied are the     *)
(* events the device produced, in their order, none skipped and none       *)
(* applied twice: at any time the events produced are those applied so far *)
(* followed by those still waiting in the device.                          *)
(***************************************************************************)
C20_AppliedIsProduced == applied \o pending = produced

=============================================================================
